---- MODULE Spec2Model ----
(***************************************************************************)
(* Model of the streaming message pipeline of RAG-doc-chat:                *)
(*   backend/src/controllers/message.ts  (getMessages, createMessage,      *)
(*                                        deleteMessage, streamMessage)    *)
(*   backend/src/services/ai.ts          (streamAIResponse)                *)
(*                                                                         *)
(* Spec     : one streamMessage session (orchestrator + adapter + emitter  *)
(*            + transport + store), interleaved with the client            *)
(*            disconnecting and the transport draining / timing out.       *)
(* SpecPage : a client paging through one conversation with getMessages,   *)
(*            and the cursor codec applied to arbitrary (timestamp, id).   *)
(* SpecStore: the messages table and conversations.message_count under     *)
(*            createMessage, deleteMessage, getMessages and the two        *)
(*            inserts of streamMessage, for callers of two identities.     *)
(*                                                                         *)
(* SpecAdapter: streamAIResponse as a unit, called with a cancellation     *)
(*            token in either state.                                       *)
(* SpecEmit : sendEvent as a unit: a caller that awaits each call, a       *)
(*            transport that buffers, drains and closes, and the timers    *)
(*            and drain listeners the calls leave behind.                  *)
(*                                                                         *)
(* Steps of the session are the code between two suspension points (an     *)
(* await on the store, the provider or the transport). The client's        *)
(* disconnect, the drain signal and the write timer are event-loop tasks,  *)
(* so they interleave only at suspension points.                           *)
(***************************************************************************)
EXTENDS Integers, Sequences, FiniteSets, TLC

\* ------------------------------------------------------------------ bounds
MaxChunks == 3
MaxMsgs == 3
NumTimestamps == 2
MaxStrLen == 2
MaxRows == 3
MaxEmits == 3

\* ------------------------------------------------------------- constants
MaxContentLength == 10000
DEFAULT_LIMIT == 50
MAX_LIMIT == 100

\* ---------------------------------------------------------------- texts
\* A text is a sequence of characters; a chunk is the text of one increment.
ChunkTexts == { <<>>, <<"a">>, <<"b">> }

\* Request bodies' content field: a value of some JavaScript type; a string
\* is described by its length (content.length).
ContentInputs ==
    { [type |-> "undefined", len |-> 0],
      [type |-> "number",    len |-> 0],
      [type |-> "string",    len |-> 0],
      [type |-> "string",    len |-> 1],
      [type |-> "string",    len |-> MaxContentLength],
      [type |-> "string",    len |-> MaxContentLength + 1] }

RoleInputs == { "user", "assistant" }

\* ---------------------------------------------------------------- errors
\* An Error object: message (a sequence of fragments), code, status
\* (status 0 and code "" stand for an absent property).
MkError(m, c, s) == [msg |-> m, code |-> c, status |-> s]

NoError == MkError(<<>>, "", 0)

NotConfiguredError ==
    MkError(<<"GOOGLE_API_KEY", " is not configured in environment variables">>, "", 0)
AbortedBeforeError == MkError(<<"Request aborted before streaming started">>, "", 0)
AbortedDuringError == MkError(<<"Request aborted during streaming">>, "", 0)
StreamClosedError  == MkError(<<"Response stream closed">>, "", 0)
WriteTimeoutError  == MkError(<<"Write timeout">>, "", 0)

\* Failures the generation provider raises.
ProviderErrors ==
    { MkError(<<"connect ECONNREFUSED">>, "ECONNREFUSED", 0),
      MkError(<<"Too Many Requests">>, "", 429),
      MkError(<<"Internal Server Error">>, "", 500),
      MkError(<<"Service Unavailable">>, "", 503),
      MkError(<<"Bad Request">>, "", 400),
      MkError(<<"stream parse failure">>, "", 0) }

Includes(msg, frag) == \E i \in 1..Len(msg) : msg[i] = frag

\* ai.ts:155  throw new Error(`Failed to stream AI response: ${error.message}`)
WrapError(e) == MkError(<<"Failed to stream AI response: ">> \o e.msg, "", 0)

\* message.ts:393-402
ClassifyError(aiError) ==
    IF Includes(aiError.msg, "OPENAI_API_KEY") THEN <<"AI service not configured">>
    ELSE IF aiError.code = "ECONNREFUSED" THEN <<"Cannot connect to AI service">>
    ELSE IF aiError.status = 429 THEN <<"AI service rate limit exceeded">>
    ELSE IF aiError.status >= 500 THEN <<"AI service temporarily unavailable">>
    ELSE <<"AI service unavailable">>

\* ---------------------------------------------------------------- events
TokenEvent(t)  == [type |-> "token", content |-> t,    messageId |-> 0, error |-> <<>>]
DoneEvent(id)  == [type |-> "done",  content |-> <<>>, messageId |-> id, error |-> <<>>]
ErrorEvent(m)  == [type |-> "error", content |-> <<>>, messageId |-> 0, error |-> m]
NoEvent        == [type |-> "none",  content |-> <<>>, messageId |-> 0, error |-> <<>>]

\* ai.ts:149  error.message || "AI streaming failed"
AdapterErrorText(e) == IF e.msg = <<>> THEN <<"AI streaming failed">> ELSE e.msg

\* ------------------------------------------------------------- variables
VARIABLES
    pc,                \* position of the handler
    content,           \* req.body.content
    role,              \* req.body.role (default "user")
    hasKey,            \* process.env.GOOGLE_API_KEY is set
    status,            \* HTTP status of a JSON response (0: none sent)
    sse,               \* event-stream headers set and close listener attached
    store,             \* rows of the messages table inserted by the session
    events,            \* events written to the transport (res.write calls)
    aborted,           \* abortController.signal.aborted
    destroyed,         \* res.destroyed
    ended,             \* res.writableEnded
    needDrain,         \* the transport holds buffered data (write returned false)
    streamingStarted,  \* message.ts:287
    completeResponse,  \* ai.ts:122 accumulator
    err,               \* error caught inside streamAIResponse
    aiError,           \* error caught by streamMessage around the adapter
    emitEv,            \* event handed to sendEvent
    emitErr,           \* reason of the last sendEvent rejection
    ctx,               \* call site of the current sendEvent
    produced,          \* increments the provider has yielded so far
    asstIssued,        \* the assistant-message insert has been issued
    earlyCancel,       \* the client disconnected before that insert was issued
    cancelObserved,    \* a checkpoint has seen the aborted token
    timedOut,          \* some emit failed with Write timeout
    thrown,            \* the store call that threw into the outer catch, if any
    \* ---- a client of getMessages
    msgs,              \* the messages of the conversation: (created_at, id) pairs
    rawLimit,          \* String(req.query.limit ?? "") of the client's requests
    parsedLimit,       \* Number.parseInt(rawLimit, 10)
    phase,             \* what the paging client is doing
    cursor,            \* the cursor of the client's next request
    reqDirection,      \* the direction of the client's last request
    prevPage,          \* the page whose next_cursor the last request followed
    resp,              \* the last response received
    collected,         \* concatenation of the pages received while paging forward
    anchor,            \* the message whose cursor a backward request started from
    codecIn,           \* a (timestamp, id) pair handed to the cursor codec
    codecOut,          \* the result of decoding its cursor
    \* ---- the messages table under the four handlers
    table,             \* rows of the messages table
    message_count,     \* conversations.message_count, per conversation
    nextId,            \* the next row id the table hands out
    streaming,         \* conversation of a session between its two inserts
    reply,             \* what the last request did and was answered
    \* ---- the emitter on its own
    emits,             \* the promise of each sendEvent call so far
    timers,            \* calls whose write timer is armed
    drainListeners     \* calls whose once("drain") listener is registered

inp  == << content, role, hasKey >>
http == << status, sse >>
tr   == << events, destroyed, ended, needDrain >>
ad   == << completeResponse, err, aiError, produced >>
em   == << emitEv, emitErr, ctx >>
gh   == << asstIssued, earlyCancel, cancelObserved, timedOut, thrown >>

svars == << pc, store, aborted, streamingStarted, inp, http, tr, ad, em, gh >>

pvars == << msgs, rawLimit, parsedLimit, phase, cursor, reqDirection, prevPage, resp,
            collected, anchor, codecIn, codecOut >>

dvars == << table, message_count, nextId, streaming, reply >>

evars == << emits, timers, drainListeners >>

vars == << svars, pvars, dvars, evars >>

\* --------------------------------------------------------------- initial
\* no getMessages client
PagerOff ==
    /\ msgs = {}
    /\ rawLimit = <<>>
    /\ parsedLimit = [nan |-> TRUE, n |-> 0]
    /\ phase = "off"
    /\ cursor = <<>>
    /\ reqDirection = "after"
    /\ prevPage = <<>>
    /\ resp = [status |-> 0]
    /\ collected = <<>>
    /\ anchor = <<>>
    /\ codecIn = << <<>>, <<>> >>
    /\ codecOut = [ok |-> FALSE]

\* no request against the messages table
StoreOff ==
    /\ table = {}
    /\ message_count = [c \in {} |-> 0]
    /\ nextId = 1
    /\ streaming = "none"
    /\ reply = [op |-> "none"]

\* streamMessage called with a request body; message.ts:286-287
SessionInit(startPc) ==
    /\ pc = startPc
    /\ status = 0
    /\ sse = FALSE
    /\ store = <<>>
    /\ events = <<>>
    /\ aborted = FALSE
    /\ destroyed = FALSE
    /\ ended = FALSE
    /\ needDrain = FALSE
    /\ streamingStarted = FALSE
    /\ completeResponse = <<>>
    /\ err = NoError
    /\ aiError = NoError
    /\ emitEv = NoEvent
    /\ emitErr = NoError
    /\ ctx = "none"
    /\ produced = <<>>
    /\ asstIssued = FALSE
    /\ earlyCancel = FALSE
    /\ cancelObserved = FALSE
    /\ timedOut = FALSE
    /\ thrown = "none"
    /\ emits = <<>>
    /\ timers = {}
    /\ drainListeners = {}

Init ==
    /\ content \in ContentInputs
    /\ role \in RoleInputs
    /\ hasKey \in BOOLEAN
    /\ SessionInit("start")
    /\ PagerOff
    /\ StoreOff

\* ------------------------------------------------------------ the store
\* A row of the messages table. A user turn's content is the request's content
\* value; an assistant turn's content is the generated text. turn names the
\* insert statement that wrote the row (message.ts:356 or message.ts:416).
Row(id, r, c, turn) == [id |-> id, role |-> r, content |-> c, turn |-> turn]

\* ---------------------------------------------------- streamMessage steps
\* JavaScript truthiness of the content value (a number stands for a non-zero one)
Falsy(c) == c.type = "undefined" \/ (c.type = "string" /\ c.len = 0)

\* InvalidContent with the length test off by one (>= for >)
InvalidContentOffByOne(c) ==
    \/ Falsy(c) \/ c.type # "string"
    \/ c.len >= MaxContentLength

\* message.ts:299-305: the two validation tests that answer 400
InvalidContent(c) ==
    \/ Falsy(c) \/ c.type # "string"
    \/ c.len > MaxContentLength

\* message.ts:295-313: validate, then issue the conversation lookup
Validate ==
    /\ pc = "start"
    /\ IF InvalidContent(content)
         THEN /\ status' = 400
              /\ pc' = "returned"
         ELSE /\ status' = status
              /\ pc' = "conv_check"
    /\ UNCHANGED << pvars, dvars, evars, sse, store, aborted, streamingStarted, inp, tr, ad, em, gh >>

\* ConvNotFound with the lookup made after the event-stream set-up
ConvNotFoundAfterUpgrade ==
    /\ pc = "conv_check"
    /\ sse' = TRUE
    /\ status' = 404
    /\ pc' = "returned"
    /\ UNCHANGED << pvars, dvars, evars, store, aborted, streamingStarted, inp, tr, ad, em, gh >>

\* message.ts:315-317: conversation not found
ConvNotFound ==
    /\ pc = "conv_check"
    /\ status' = 404
    /\ pc' = "returned"
    /\ UNCHANGED << pvars, dvars, evars, sse, store, aborted, streamingStarted, inp, tr, ad, em, gh >>

\* message.ts:308-313 -> 438: the conversation lookup threw
ConvLookupThrows ==
    /\ pc = "conv_check"
    /\ thrown' = "lookup"
    /\ pc' = "outer_catch"
    /\ UNCHANGED << pvars, dvars, evars, asstIssued, earlyCancel, cancelObserved, timedOut, store,
                    aborted, streamingStarted, inp, http, tr, ad, em >>

\* message.ts:319-364: headers, close listener, sendEvent defined, user insert issued
ConvFound ==
    /\ pc = "conv_check"
    /\ sse' = TRUE
    /\ pc' = "user_insert"
    /\ UNCHANGED << pvars, dvars, evars, status, store, aborted, streamingStarted, inp, tr, ad, em, gh >>

\* message.ts:356-372: the user row is written, then the first done event is sent
UserInsertOk ==
    /\ pc = "user_insert"
    /\ store' = Append(store, Row(Len(store) + 1, role, content, "user_turn"))
    /\ emitEv' = DoneEvent(Len(store) + 1)
    /\ ctx' = "user_done"
    /\ pc' = "emit"
    /\ UNCHANGED << pvars, dvars, evars, emitErr, aborted, streamingStarted, inp, http, tr, ad, gh >>

\* UserInsertFail ignoring the error and going on as after a success
UserInsertFailIgnored ==
    /\ pc = "user_insert"
    /\ emitEv' = DoneEvent(0)
    /\ ctx' = "user_done"
    /\ pc' = "emit"
    /\ UNCHANGED << pvars, dvars, evars, emitErr, store, aborted, streamingStarted, inp, http, tr,
                    ad, gh >>

\* message.ts:366-369: the user insert failed
UserInsertFail ==
    /\ pc = "user_insert"
    /\ emitEv' = ErrorEvent(<<"Failed to save user message">>)
    /\ ctx' = "user_err"
    /\ pc' = "emit"
    /\ UNCHANGED << pvars, dvars, evars, emitErr, store, aborted, streamingStarted, inp, http, tr, ad, gh >>

\* message.ts:356-364 -> 438: the user insert threw
UserInsertThrows ==
    /\ pc = "user_insert"
    /\ thrown' = "user_insert"
    /\ pc' = "outer_catch"
    /\ UNCHANGED << pvars, dvars, evars, asstIssued, earlyCancel, cancelObserved, timedOut, store,
                    aborted, streamingStarted, inp, http, tr, ad, em >>

\* ------------------------------------------------------------ sendEvent
\* SendEvent without the writableEnded / destroyed test
SendEventNoClosedTest ==
    /\ pc = "emit"
    /\ events' = Append(events, emitEv)
    /\ \E success \in BOOLEAN :
          /\ success => ~needDrain
          /\ IF success
               THEN /\ pc' = "resolved"
                    /\ needDrain' = needDrain
               ELSE /\ pc' = "emit_wait"
                    /\ needDrain' = TRUE
    /\ UNCHANGED << pvars, dvars, evars, emitEv, emitErr, ctx, destroyed, ended, store, aborted,
                    streamingStarted, inp, http, ad, gh >>

\* message.ts:334-352, the synchronous part of the promise executor
SendEvent ==
    /\ pc = "emit"
    /\ IF ended \/ destroyed
         THEN /\ emitErr' = StreamClosedError
              /\ pc' = "rejected"
              /\ UNCHANGED << events, needDrain >>
         ELSE /\ events' = Append(events, emitEv)
              /\ \E success \in BOOLEAN :
                    /\ success => ~needDrain
                    /\ IF success
                         THEN /\ pc' = "resolved"
                              /\ needDrain' = needDrain
                         ELSE /\ pc' = "emit_wait"
                              /\ needDrain' = TRUE
              /\ emitErr' = emitErr
    /\ UNCHANGED << pvars, dvars, evars, emitEv, ctx, destroyed, ended, store, aborted,
                    streamingStarted, inp, http, ad, gh >>

\* message.ts:348  res.once("drain", () => resolve())
Drain ==
    /\ pc = "emit_wait"
    /\ ~destroyed
    /\ needDrain' = FALSE
    /\ pc' = "resolved"
    /\ UNCHANGED << pvars, dvars, evars, events, destroyed, ended, store, aborted, streamingStarted,
                    inp, http, ad, em, gh >>

\* message.ts:350  setTimeout(() => reject(new Error("Write timeout")), 5000)
WriteTimeout ==
    /\ pc = "emit_wait"
    /\ emitErr' = WriteTimeoutError
    /\ timedOut' = TRUE
    /\ pc' = "rejected"
    /\ UNCHANGED << pvars, dvars, evars, thrown, emitEv, ctx, asstIssued, earlyCancel, cancelObserved, store,
                    aborted, streamingStarted, inp, http, tr, ad >>

\* message.ts:326-331: the client goes away. The transport marks the response
\* destroyed before it emits 'close'; the listener, when it is already
\* attached, triggers the abort controller. A close that came before the
\* listener was attached is never seen by it.
Disconnect ==
    /\ pc \in { "conv_check", "user_insert", "emit_wait", "provider_open",
                "provider_next", "asst_insert" }
    /\ ~destroyed
    /\ destroyed' = TRUE
    /\ aborted' = (aborted \/ sse)
    /\ earlyCancel' = (earlyCancel \/ ~asstIssued)
    /\ UNCHANGED << pvars, dvars, evars, thrown, pc, events, ended, needDrain, asstIssued, cancelObserved,
                    timedOut, store, streamingStarted, inp, http, ad, em >>

\* ------------------------------------------- continuations of sendEvent
\* message.ts:372-379: first done sent; streaming starts, the adapter is called
UserDoneSent ==
    /\ pc = "resolved"
    /\ ctx = "user_done"
    /\ streamingStarted' = TRUE
    /\ pc' = "adapter_start"
    /\ UNCHANGED << pvars, dvars, evars, store, aborted, inp, http, tr, ad, em, gh >>

\* message.ts:368, 406, 432, 437: res.end() after a terminal event
EndAfterEvent ==
    /\ pc = "resolved"
    /\ ctx \in { "user_err", "orch_error", "asst_err", "final_done" }
    /\ ended' = TRUE
    /\ pc' = "returned"
    /\ UNCHANGED << pvars, dvars, evars, events, destroyed, needDrain, store, aborted,
                    streamingStarted, inp, http, ad, em, gh >>

\* message.ts:438: a sendEvent awaited by the orchestrator rejected
EmitFailedInHandler ==
    /\ pc = "rejected"
    /\ ctx \in { "user_done", "user_err", "orch_error", "asst_err", "final_done" }
    /\ pc' = "outer_catch"
    /\ UNCHANGED << pvars, dvars, evars, store, aborted, streamingStarted, inp, http, tr, ad, em, gh >>

\* OuterCatch writing its error event without the writableEnded / destroyed test
OuterCatchNoOpenTest ==
    /\ pc = "outer_catch"
    /\ IF streamingStarted
         THEN /\ events' = Append(events, ErrorEvent(<<"Internal server error">>))
              /\ \E success \in BOOLEAN :
                    /\ success => ~needDrain
                    /\ needDrain' = (needDrain \/ ~success)
         ELSE UNCHANGED << events, needDrain >>
    /\ ended' = TRUE
    /\ pc' = "returned"
    /\ UNCHANGED << pvars, dvars, evars, destroyed, store, aborted, streamingStarted, inp, http, ad,
                    em, gh >>

\* OuterCatch without the final res.end()
OuterCatchNoEnd ==
    /\ pc = "outer_catch"
    /\ IF streamingStarted /\ ~ended /\ ~destroyed
         THEN /\ events' = Append(events, ErrorEvent(<<"Internal server error">>))
              /\ \E success \in BOOLEAN :
                    /\ success => ~needDrain
                    /\ needDrain' = (needDrain \/ ~success)
         ELSE UNCHANGED << events, needDrain >>
    /\ pc' = "returned"
    /\ UNCHANGED << pvars, dvars, evars, ended, destroyed, store, aborted, streamingStarted, inp,
                    http, ad, em, gh >>

\* message.ts:438-459: the outer catch
OuterCatch ==
    /\ pc = "outer_catch"
    /\ IF streamingStarted /\ ~ended /\ ~destroyed
         THEN /\ events' = Append(events, ErrorEvent(<<"Internal server error">>))
              /\ \E success \in BOOLEAN :
                    /\ success => ~needDrain
                    /\ needDrain' = (needDrain \/ ~success)
         ELSE UNCHANGED << events, needDrain >>
    /\ ended' = TRUE
    /\ pc' = "returned"
    /\ UNCHANGED << pvars, dvars, evars, destroyed, store, aborted, streamingStarted, inp, http, ad,
                    em, gh >>

\* ------------------------------------------------------ streamAIResponse
\* AdapterStart without the abort test of ai.ts:115
AdapterStartNoAbortCheck ==
    /\ pc = "adapter_start"
    /\ IF ~hasKey
         THEN /\ err' = NotConfiguredError
              /\ pc' = "adapter_catch"
         ELSE /\ err' = err
              /\ pc' = "provider_open"
    /\ UNCHANGED << pvars, dvars, evars, thrown, completeResponse, aiError, produced, asstIssued,
                    earlyCancel, cancelObserved, timedOut, store, aborted,
                    streamingStarted, inp, http, tr, em >>

\* Whether process.env.GOOGLE_API_KEY is set is a property of the deployment.
\* ai.ts:89-120: credentials check, abort check, the provider request is issued
AdapterStart ==
    /\ pc = "adapter_start"
    /\ IF ~hasKey
         THEN /\ err' = NotConfiguredError
              /\ pc' = "adapter_catch"
              /\ cancelObserved' = cancelObserved
         ELSE IF aborted
           THEN /\ err' = AbortedBeforeError
                /\ pc' = "adapter_catch"
                /\ cancelObserved' = TRUE
           ELSE /\ err' = err
                /\ pc' = "provider_open"
                /\ cancelObserved' = cancelObserved
    /\ UNCHANGED << pvars, dvars, evars, thrown, completeResponse, aiError, produced, asstIssued, earlyCancel,
                    timedOut, store, aborted, streamingStarted, inp, http, tr, em >>

\* ai.ts:120-122: generateContentStream resolved
ProviderOpened ==
    /\ pc = "provider_open"
    /\ completeResponse' = <<>>
    /\ pc' = "provider_next"
    /\ UNCHANGED << pvars, dvars, evars, err, aiError, produced, store, aborted, streamingStarted, inp,
                    http, tr, em, gh >>

\* ai.ts:120, 125 -> 142: the provider call or the stream iteration rejected
ProviderFails ==
    /\ pc \in { "provider_open", "provider_next" }
    /\ \E e \in ProviderErrors : err' = e
    /\ pc' = "adapter_catch"
    /\ UNCHANGED << pvars, dvars, evars, completeResponse, aiError, produced, store, aborted,
                    streamingStarted, inp, http, tr, em, gh >>

\* ProviderYields without the checkpoint of ai.ts:127
ProviderYieldsNoCheckpoint ==
    /\ pc = "provider_next"
    /\ Len(produced) < MaxChunks
    /\ \E chunkText \in ChunkTexts :
          /\ produced' = Append(produced, chunkText)
          /\ completeResponse' = completeResponse \o chunkText
          /\ emitEv' = TokenEvent(chunkText)
          /\ ctx' = "token"
          /\ pc' = "emit"
    /\ UNCHANGED << pvars, dvars, evars, thrown, err, cancelObserved, aiError, emitErr,
                    asstIssued, earlyCancel, timedOut, store, aborted,
                    streamingStarted, inp, http, tr >>

\* ProviderYields forwarding the accumulated text instead of the increment
ProviderYieldsSendsAccumulated ==
    /\ pc = "provider_next"
    /\ Len(produced) < MaxChunks
    /\ \E chunkText \in ChunkTexts :
          /\ produced' = Append(produced, chunkText)
          /\ IF aborted
               THEN /\ err' = AbortedDuringError
                    /\ cancelObserved' = TRUE
                    /\ pc' = "adapter_catch"
                    /\ UNCHANGED << completeResponse, emitEv, ctx >>
               ELSE /\ completeResponse' = completeResponse \o chunkText
                    /\ emitEv' = TokenEvent(completeResponse \o chunkText)
                    /\ ctx' = "token"
                    /\ pc' = "emit"
                    /\ UNCHANGED << err, cancelObserved >>
    /\ UNCHANGED << pvars, dvars, evars, thrown, aiError, emitErr, asstIssued, earlyCancel, timedOut, store,
                    aborted, streamingStarted, inp, http, tr >>

\* ProviderYields assigning the increment to the accumulator (= for +=)
ProviderYieldsOverwrites ==
    /\ pc = "provider_next"
    /\ Len(produced) < MaxChunks
    /\ \E chunkText \in ChunkTexts :
          /\ produced' = Append(produced, chunkText)
          /\ IF aborted
               THEN /\ err' = AbortedDuringError
                    /\ cancelObserved' = TRUE
                    /\ pc' = "adapter_catch"
                    /\ UNCHANGED << completeResponse, emitEv, ctx >>
               ELSE /\ completeResponse' = chunkText
                    /\ emitEv' = TokenEvent(chunkText)
                    /\ ctx' = "token"
                    /\ pc' = "emit"
                    /\ UNCHANGED << err, cancelObserved >>
    /\ UNCHANGED << pvars, dvars, evars, thrown, aiError, emitErr, asstIssued, earlyCancel, timedOut, store,
                    aborted, streamingStarted, inp, http, tr >>

\* ai.ts:125-138: one increment arrives; checkpoint, accumulate, forward
ProviderYields ==
    /\ pc = "provider_next"
    /\ Len(produced) < MaxChunks
    /\ \E chunkText \in ChunkTexts :
          /\ produced' = Append(produced, chunkText)
          /\ IF aborted
               THEN /\ err' = AbortedDuringError
                    /\ cancelObserved' = TRUE
                    /\ pc' = "adapter_catch"
                    /\ UNCHANGED << completeResponse, emitEv, ctx >>
               ELSE /\ completeResponse' = completeResponse \o chunkText
                    /\ emitEv' = TokenEvent(chunkText)
                    /\ ctx' = "token"
                    /\ pc' = "emit"
                    /\ UNCHANGED << err, cancelObserved >>
    /\ UNCHANGED << pvars, dvars, evars, thrown, aiError, emitErr, asstIssued, earlyCancel, timedOut, store,
                    aborted, streamingStarted, inp, http, tr >>

\* ai.ts:135-139: the token was sent; the loop awaits the next increment
TokenSent ==
    /\ pc = "resolved"
    /\ ctx = "token"
    /\ pc' = "provider_next"
    /\ UNCHANGED << pvars, dvars, evars, store, aborted, streamingStarted, inp, http, tr, ad, em, gh >>

\* TokenSendFailed swallowing the rejection and going on with the loop
TokenSendFailedContinues ==
    /\ pc = "rejected"
    /\ ctx = "token"
    /\ pc' = "provider_next"
    /\ UNCHANGED << pvars, dvars, evars, store, aborted, streamingStarted, inp, http, tr, ad,
                    em, gh >>

\* ai.ts:135 -> 142: onChunk rejected inside the loop
TokenSendFailed ==
    /\ pc = "rejected"
    /\ ctx = "token"
    /\ err' = emitErr
    /\ pc' = "adapter_catch"
    /\ UNCHANGED << pvars, dvars, evars, completeResponse, aiError, produced, store, aborted,
                    streamingStarted, inp, http, tr, em, gh >>

\* ai.ts:142-150: the adapter's catch sends an error chunk of its own
AdapterCatch ==
    /\ pc = "adapter_catch"
    /\ emitEv' = ErrorEvent(AdapterErrorText(err))
    /\ ctx' = "adapter_error"
    /\ pc' = "emit"
    /\ UNCHANGED << pvars, dvars, evars, emitErr, store, aborted, streamingStarted, inp, http, tr, ad, gh >>

\* ai.ts:151-155: whatever became of that chunk, a new Error is thrown
AdapterRethrow ==
    /\ pc \in { "resolved", "rejected" }
    /\ ctx = "adapter_error"
    /\ aiError' = WrapError(err)
    /\ pc' = "orch_catch"
    /\ UNCHANGED << pvars, dvars, evars, completeResponse, err, produced, store, aborted,
                    streamingStarted, inp, http, tr, em, gh >>

\* message.ts:389-405: classify and send the error event
OrchCatch ==
    /\ pc = "orch_catch"
    /\ emitEv' = ErrorEvent(ClassifyError(aiError))
    /\ ctx' = "orch_error"
    /\ pc' = "emit"
    /\ UNCHANGED << pvars, dvars, evars, emitErr, store, aborted, streamingStarted, inp, http, tr, ad, gh >>

\* AdapterReturns without the abort test of message.ts:410
AdapterReturnsNoAbortTest ==
    /\ pc = "provider_next"
    /\ asstIssued' = TRUE
    /\ pc' = "asst_insert"
    /\ UNCHANGED << pvars, dvars, evars, thrown, cancelObserved, ended, events, destroyed, needDrain,
                    earlyCancel, timedOut, store, aborted, streamingStarted, inp,
                    http, ad, em >>

\* ai.ts:141, message.ts:409-424: the stream ended and the adapter returned its
\* text; the abort test, then either res.end() or the assistant insert is issued
AdapterReturns ==
    /\ pc = "provider_next"
    /\ IF aborted
         THEN /\ cancelObserved' = TRUE
              /\ ended' = TRUE
              /\ pc' = "returned"
              /\ asstIssued' = asstIssued
         ELSE /\ asstIssued' = TRUE
              /\ pc' = "asst_insert"
              /\ UNCHANGED << cancelObserved, ended >>
    /\ UNCHANGED << pvars, dvars, evars, thrown, events, destroyed, needDrain, earlyCancel, timedOut, store,
                    aborted, streamingStarted, inp, http, ad, em >>

\* message.ts:416-436: the assistant row is written, then the final done is sent
AssistantInsertOk ==
    /\ pc = "asst_insert"
    /\ store' = Append(store, Row(Len(store) + 1, "assistant", completeResponse,
                                  "assistant_turn"))
    /\ emitEv' = DoneEvent(Len(store) + 1)
    /\ ctx' = "final_done"
    /\ pc' = "emit"
    /\ UNCHANGED << pvars, dvars, evars, emitErr, aborted, streamingStarted, inp, http, tr, ad, gh >>

\* message.ts:426-433: the assistant insert failed
AssistantInsertFail ==
    /\ pc = "asst_insert"
    /\ emitEv' = ErrorEvent(<<"Failed to save AI response">>)
    /\ ctx' = "asst_err"
    /\ pc' = "emit"
    /\ UNCHANGED << pvars, dvars, evars, emitErr, store, aborted, streamingStarted, inp, http, tr, ad, gh >>

\* message.ts:416-424 -> 438: the assistant insert threw
AssistantInsertThrows ==
    /\ pc = "asst_insert"
    /\ thrown' = "asst_insert"
    /\ pc' = "outer_catch"
    /\ UNCHANGED << pvars, dvars, evars, asstIssued, earlyCancel, cancelObserved, timedOut, store,
                    aborted, streamingStarted, inp, http, tr, ad, em >>

\* ------------------------------------------------------- specification
Next ==
    \/ Validate
    \/ ConvNotFound
    \/ ConvLookupThrows
    \/ ConvFound
    \/ UserInsertOk
    \/ UserInsertFail
    \/ UserInsertThrows
    \/ SendEvent
    \/ Drain
    \/ WriteTimeout
    \/ Disconnect
    \/ UserDoneSent
    \/ EndAfterEvent
    \/ EmitFailedInHandler
    \/ OuterCatch
    \/ AdapterStart
    \/ ProviderOpened
    \/ ProviderFails
    \/ ProviderYields
    \/ TokenSent
    \/ TokenSendFailed
    \/ AdapterCatch
    \/ AdapterRethrow
    \/ OrchCatch
    \/ AdapterReturns
    \/ AssistantInsertOk
    \/ AssistantInsertFail
    \/ AssistantInsertThrows

Spec == Init /\ [][Next]_vars

\* Every step but the client's disconnect is bound to happen: the handler's
\* own code runs, a store or provider call returns or fails, and a buffered
\* write is drained or its 5 s timer fires.
Progress ==
    \/ Validate
    \/ ConvNotFound
    \/ ConvLookupThrows
    \/ ConvFound
    \/ UserInsertOk
    \/ UserInsertFail
    \/ UserInsertThrows
    \/ SendEvent
    \/ Drain
    \/ WriteTimeout
    \/ UserDoneSent
    \/ EndAfterEvent
    \/ EmitFailedInHandler
    \/ OuterCatch
    \/ AdapterStart
    \/ ProviderOpened
    \/ ProviderFails
    \/ ProviderYields
    \/ TokenSent
    \/ TokenSendFailed
    \/ AdapterCatch
    \/ AdapterRethrow
    \/ OrchCatch
    \/ AdapterReturns
    \/ AssistantInsertOk
    \/ AssistantInsertFail
    \/ AssistantInsertThrows

LiveSpec == Spec /\ WF_vars(Progress)

\* ------------------------------------------------ the adapter as a unit
\* streamAIResponse called directly (ai.ts:85-88) with a prompt, a signal
\* that may already be aborted, and sendEvent on an open event stream as its
\* onChunk; the caller has stored the prompt and sent the first done event.
AInit ==
    /\ content = [type |-> "string", len |-> 1]
    /\ role = "user"
    /\ hasKey \in BOOLEAN
    /\ pc = "adapter_start"
    /\ status = 0
    /\ sse = TRUE
    /\ store = << Row(1, "user", [type |-> "string", len |-> 1], "user_turn") >>
    /\ events = << DoneEvent(1) >>
    /\ aborted \in BOOLEAN
    /\ destroyed \in { FALSE, aborted }
    /\ ended = FALSE
    /\ needDrain = FALSE
    /\ streamingStarted = TRUE
    /\ completeResponse = <<>>
    /\ err = NoError
    /\ aiError = NoError
    /\ emitEv = DoneEvent(1)
    /\ emitErr = NoError
    /\ ctx = "user_done"
    /\ produced = <<>>
    /\ asstIssued = FALSE
    /\ earlyCancel = aborted
    /\ cancelObserved = FALSE
    /\ timedOut = FALSE
    /\ thrown = "none"
    /\ emits = <<>>
    /\ timers = {}
    /\ drainListeners = {}
    /\ PagerOff
    /\ StoreOff

\* the steps of the adapter, of its onChunk and of the transport, up to the
\* adapter's return or throw
ANext ==
    \/ AdapterStart
    \/ ProviderOpened
    \/ ProviderFails
    \/ ProviderYields
    \/ SendEvent
    \/ Drain
    \/ WriteTimeout
    \/ Disconnect
    \/ TokenSent
    \/ TokenSendFailed
    \/ AdapterCatch
    \/ AdapterRethrow
    \/ AdapterReturns

SpecAdapter == AInit /\ [][ANext]_vars

\* ======================================================== getMessages
\* Strings are sequences of characters; CharOrder is their collation.
CharOrder == << "0", "1", "2", "3", "4", "_", "a", "b", "c", "d", "e" >>
Ord(c) == CHOOSE i \in 1..Len(CharOrder) : CharOrder[i] = c

RECURSIVE StrLess(_, _)
StrLess(a, b) ==
    IF b = <<>> THEN FALSE
    ELSE IF a = <<>> THEN TRUE
    ELSE IF Head(a) # Head(b) THEN Ord(Head(a)) < Ord(Head(b))
    ELSE StrLess(Tail(a), Tail(b))

\* created_at values (fixed width, so collation is chronology) and row ids
Timestamps == { << CharOrder[1 + i] >> : i \in 1..NumTimestamps }
Ids == { << CharOrder[6 + i] >> : i \in 1..MaxMsgs }
Msg(t, id) == [created_at |-> t, id |-> id]

\* Conversations: every id is absent or carries one of the timestamps.
Conversations ==
    { { Msg(f[id], id) : id \in { i \in Ids : f[i] # <<>> } } :
        f \in [Ids -> Timestamps \cup { <<>> }] }

\* message.ts:128,130  `${msg.created_at}_${msg.id}`
EncodeCursorSwapped(t, id) == id \o << "_" >> \o t

EncodeCursor(t, id) == t \o << "_" >> \o id

\* String.prototype.split
RECURSIVE Split(_, _)
Split(str, sep) ==
    IF \A i \in 1..Len(str) : str[i] # sep THEN << str >>
    ELSE LET i == CHOOSE k \in 1..Len(str) :
                     str[k] = sep /\ \A j \in 1..(k - 1) : str[j] # sep
         IN  << SubSeq(str, 1, i - 1) >> \o Split(SubSeq(str, i + 1, Len(str)), sep)

\* message.ts:64-75: ok is FALSE where the handler answers 400
DecodeCursor(c) ==
    LET parts == Split(c, "_")
    IN  IF Len(parts) = 2
          THEN [ok |-> TRUE, created_at |-> parts[1], id |-> parts[2]]
          ELSE [ok |-> FALSE, created_at |-> <<>>, id |-> <<>>]

\* Number.parseInt(str, 10): an optional sign, then the longest prefix of
\* decimal digits; NaN when there is none
DigitChars == << "0", "1", "2", "3", "4", "5", "6", "7", "8", "9" >>
IsDigit(c) == \E i \in 1..Len(DigitChars) : DigitChars[i] = c
DigitValue(c) == (CHOOSE i \in 1..Len(DigitChars) : DigitChars[i] = c) - 1

RECURSIVE ParseDigits(_, _, _)
ParseDigits(str, acc, any) ==
    IF str = <<>> \/ ~IsDigit(Head(str))
      THEN [nan |-> ~any, n |-> IF any THEN acc ELSE 0]
      ELSE ParseDigits(Tail(str), acc * 10 + DigitValue(Head(str)), TRUE)

ParseInt(str) ==
    IF str # <<>> /\ Head(str) = "-"
      THEN LET p == ParseDigits(Tail(str), 0, FALSE) IN [nan |-> p.nan, n |-> 0 - p.n]
      ELSE ParseDigits(str, 0, FALSE)

\* EffectiveLimit without Math.min(limit, MAX_LIMIT)
EffectiveLimitNoClamp(parsed) ==
    IF ~parsed.nan /\ parsed.n > 0 THEN parsed.n ELSE DEFAULT_LIMIT

\* message.ts:36-43; parsed is Number.parseInt(rawLimit, 10), NaN or an integer
EffectiveLimit(parsed) ==
    LET limit == IF ~parsed.nan /\ parsed.n > 0 THEN parsed.n ELSE DEFAULT_LIMIT
    IN  IF limit < MAX_LIMIT THEN limit ELSE MAX_LIMIT

\* AfterFilter without the tie-break on id
AfterFilterNoTieBreak(m, t, id) == StrLess(t, m.created_at)

\* message.ts:87-89  created_at.gt.T, and(created_at.eq.T, id.gt.I)
AfterFilter(m, t, id) ==
    \/ StrLess(t, m.created_at)
    \/ (m.created_at = t /\ StrLess(id, m.id))

\* BeforeFilter with id.lte for id.lt
BeforeFilterInclusive(m, t, id) ==
    \/ StrLess(m.created_at, t)
    \/ (m.created_at = t /\ (StrLess(m.id, id) \/ m.id = id))

\* BeforeFilter without the id tie-break
BeforeFilterNoTieBreak(m, t, id) == StrLess(m.created_at, t)

\* message.ts:95-97  created_at.lt.T, and(created_at.eq.T, id.lt.I)
BeforeFilter(m, t, id) ==
    \/ StrLess(m.created_at, t)
    \/ (m.created_at = t /\ StrLess(m.id, id))

\* order("created_at").order("id")
MsgLess(a, b) ==
    \/ StrLess(a.created_at, b.created_at)
    \/ (a.created_at = b.created_at /\ StrLess(a.id, b.id))

RECURSIVE SortAsc(_)
SortAsc(S) ==
    IF S = {} THEN <<>>
    ELSE LET m == CHOOSE x \in S : \A y \in S \ {x} : MsgLess(x, y)
         IN  << m >> \o SortAsc(S \ {m})

Reverse(q) == [i \in 1..Len(q) |-> q[Len(q) + 1 - i]]

\* SortDesc with ascending: true
SortDescAscending(S) == SortAsc(S)

SortDesc(S) == Reverse(SortAsc(S))

\* query.limit(limit)
Take(q, n) == SubSeq(q, 1, IF Len(q) < n THEN Len(q) ELSE n)

\* NextCursorOf built from the first message
NextCursorOfFirst(messages) == EncodeCursor(messages[1].created_at, messages[1].id)

\* message.ts:124-128
NextCursorOf(messages) ==
    EncodeCursor(messages[Len(messages)].created_at, messages[Len(messages)].id)

\* PrevCursorOf built from the last message
PrevCursorOfLast(messages) ==
    EncodeCursor(messages[Len(messages)].created_at, messages[Len(messages)].id)

\* message.ts:125-130
PrevCursorOf(messages) == EncodeCursor(messages[1].created_at, messages[1].id)

\* The store parses the cursor's parts as a timestamptz and a uuid literal;
\* in the model a timestamp is one digit and an id one hexadecimal character.
ValidTimestampLiteral(t) == Len(t) = 1 /\ IsDigit(t[1])
ValidUuidLiteral(i) == Len(i) = 1 /\ i[1] # "_"

\* An absent or null cursor is the empty string (as falsy as undefined).
NullCursor == <<>>

ErrorResponse(code) ==
    [status |-> code, messages |-> <<>>, limit |-> 0, next_cursor |-> NullCursor,
     prev_cursor |-> NullCursor, has_more |-> FALSE, cursored |-> FALSE,
     at |-> << <<>>, <<>> >>]

\* message.ts:23-146 for an existing conversation holding the rows all;
\* cursored / at record the branch taken and the position the query used
GetMessages(all, cur, direction, parsed) ==
    LET limit == EffectiveLimit(parsed)
        dec == DecodeCursor(cur)
        useCursor == cur # <<>> /\ dec.created_at # <<>> /\ dec.id # <<>>
        rows ==
            IF useCursor
              THEN IF direction = "after"
                     THEN SortAsc({ m \in all : AfterFilter(m, dec.created_at, dec.id) })
                     ELSE SortDesc({ m \in all : BeforeFilter(m, dec.created_at, dec.id) })
              ELSE SortDesc(all)
        messages == Take(rows, limit)
    IN  IF direction \notin { "after", "before" } THEN ErrorResponse(400)
        ELSE IF cur # <<>> /\ ~dec.ok THEN ErrorResponse(400)
        ELSE IF useCursor /\ ~(ValidTimestampLiteral(dec.created_at)
                                /\ ValidUuidLiteral(dec.id))
          THEN ErrorResponse(500)
        ELSE [status |-> 200,
              messages |-> messages,
              limit |-> limit,
              next_cursor |-> IF messages # <<>> /\ Len(messages) = limit
                                THEN NextCursorOf(messages) ELSE NullCursor,
              prev_cursor |-> IF cur # <<>> /\ messages # <<>>
                                THEN PrevCursorOf(messages) ELSE NullCursor,
              has_more |-> Len(messages) = limit,
              cursored |-> useCursor,
              at |-> IF useCursor THEN << dec.created_at, dec.id >>
                     ELSE << <<>>, <<>> >>]

\* ----------------------------------------------------- a paging client
\* query values of limit: absent, "abc", "0", "-5", "1", "2", "100", "101", "500"
RawLimits ==
    { <<>>, << "a", "b", "c" >>, << "0" >>, << "-", "5" >>, << "1" >>, << "2" >>,
      << "1", "0", "0" >>, << "1", "0", "1" >>, << "5", "0", "0" >> }

\* the same, after Number.parseInt
LimitInputs == { ParseInt(r) : r \in RawLimits }

\* a position before every message of every conversation
StartCursor == EncodeCursor(<< "0" >>, << "0" >>)

\* strings handed to the codec
RECURSIVE StringsUpTo(_)
StringsUpTo(n) ==
    IF n = 0 THEN { <<>> }
    ELSE StringsUpTo(n - 1) \cup
         { Append(w, c) : w \in { x \in StringsUpTo(n - 1) : Len(x) = n - 1 },
                          c \in { "1", "a", "_" } }

SessionOff ==
    /\ content = [type |-> "undefined", len |-> 0]
    /\ role = "user"
    /\ hasKey = FALSE
    /\ SessionInit("off")

PInit ==
    /\ SessionOff
    /\ StoreOff
    /\ msgs \in Conversations
    /\ rawLimit \in RawLimits
    /\ parsedLimit = ParseInt(rawLimit)
    /\ phase = "idle"
    /\ cursor = NullCursor
    /\ reqDirection = "after"
    /\ prevPage = <<>>
    /\ resp = [status |-> 0]
    /\ collected = <<>>
    /\ anchor = <<>>
    /\ codecIn = << <<>>, <<>> >>
    /\ codecOut = [ok |-> FALSE]

\* the client starts reading the conversation forward from its beginning
BeginForward ==
    /\ phase = "idle"
    /\ phase' = "forward"
    /\ cursor' = StartCursor
    /\ UNCHANGED << svars, dvars, evars, msgs, rawLimit, parsedLimit, reqDirection, prevPage, resp,
                    collected, anchor, codecIn, codecOut >>

\* GET messages?direction=after&cursor=...; the page is appended and the
\* client follows next_cursor until none is returned
FetchAfter ==
    /\ phase = "forward"
    /\ resp' = GetMessages(msgs, cursor, "after", parsedLimit)
    /\ collected' = collected \o resp'.messages
    /\ IF resp'.next_cursor = NullCursor
         THEN phase' = "forward_done" /\ cursor' = cursor
         ELSE phase' = "forward" /\ cursor' = resp'.next_cursor
    /\ reqDirection' = "after"
    /\ UNCHANGED << svars, dvars, evars, msgs, rawLimit, parsedLimit, prevPage, anchor, codecIn,
                    codecOut >>

\* GET messages?direction=before&cursor=<cursor of a message the client holds>
FetchBefore ==
    /\ phase = "idle"
    /\ \E a \in msgs :
          /\ anchor' = a
          /\ cursor' = EncodeCursor(a.created_at, a.id)
          /\ resp' = GetMessages(msgs, EncodeCursor(a.created_at, a.id), "before",
                                 parsedLimit)
    /\ phase' = "before_done"
    /\ reqDirection' = "before"
    /\ UNCHANGED << svars, dvars, evars, msgs, rawLimit, parsedLimit, prevPage, collected, codecIn,
                    codecOut >>

\* GET messages?direction=after&cursor=<prev_cursor of the backward page>
FetchAfterPrev ==
    /\ phase = "before_done"
    /\ resp.prev_cursor # NullCursor
    /\ cursor' = resp.prev_cursor
    /\ resp' = GetMessages(msgs, resp.prev_cursor, "after", parsedLimit)
    /\ phase' = "back_forth_done"
    /\ reqDirection' = "after"
    /\ UNCHANGED << svars, dvars, evars, msgs, rawLimit, parsedLimit, prevPage, collected, anchor,
                    codecIn, codecOut >>

\* message.ts:128 then message.ts:64-75 applied to an arbitrary pair
CodecRoundTrip ==
    /\ phase = "idle"
    /\ \E t \in StringsUpTo(MaxStrLen), id \in StringsUpTo(MaxStrLen) :
          /\ codecIn' = << t, id >>
          /\ codecOut' = DecodeCursor(EncodeCursor(t, id))
    /\ phase' = "codec_done"
    /\ UNCHANGED << svars, dvars, evars, msgs, rawLimit, parsedLimit, cursor, reqDirection, prevPage,
                    resp, collected, anchor >>

\* GET messages?cursor=<any non-empty string>&direction=...
FetchWithCursor ==
    /\ phase = "idle"
    /\ \E c \in StringsUpTo(MaxStrLen + 1) \ { <<>> }, d \in { "after", "before" } :
          /\ cursor' = c
          /\ reqDirection' = d
          /\ resp' = GetMessages(msgs, c, d, parsedLimit)
    /\ phase' = "cursor_done"
    /\ UNCHANGED << svars, dvars, evars, msgs, rawLimit, parsedLimit, prevPage, collected, anchor,
                    codecIn, codecOut >>

\* GET messages without a cursor, direction absent ("after") or given
FetchInitial ==
    /\ phase = "idle"
    /\ \E d \in { "after", "before" } :
          /\ reqDirection' = d
          /\ resp' = GetMessages(msgs, NullCursor, d, parsedLimit)
    /\ phase' = "initial_done"
    /\ UNCHANGED << svars, dvars, evars, msgs, rawLimit, parsedLimit, cursor, prevPage, collected,
                    anchor, codecIn, codecOut >>

\* GET messages?direction=after&cursor=<next_cursor of the page just received>
FollowNext ==
    /\ phase \in { "initial_done", "before_done", "cursor_done" }
    /\ resp.status = 200
    /\ phase = "cursor_done" => resp.cursored
    /\ resp.next_cursor # NullCursor
    /\ prevPage' = resp.messages
    /\ cursor' = resp.next_cursor
    /\ reqDirection' = "after"
    /\ resp' = GetMessages(msgs, resp.next_cursor, "after", parsedLimit)
    /\ phase' = "next_done"
    /\ UNCHANGED << svars, dvars, evars, msgs, rawLimit, parsedLimit, collected, anchor, codecIn,
                    codecOut >>

\* message.ts:18-20: the initial page (newest first), then older pages
BeginBackward ==
    /\ phase = "idle"
    /\ resp' = GetMessages(msgs, NullCursor, "after", parsedLimit)
    /\ collected' = resp'.messages
    /\ IF resp'.next_cursor = NullCursor
         THEN phase' = "backward_done" /\ cursor' = cursor
         ELSE phase' = "backward" /\ cursor' = resp'.next_cursor
    /\ reqDirection' = "after"
    /\ UNCHANGED << svars, dvars, evars, msgs, rawLimit, parsedLimit, prevPage, anchor, codecIn,
                    codecOut >>

\* GET messages?direction=before&cursor=<next_cursor of the previous page>,
\* until a page comes back without a next_cursor
FetchOlder ==
    /\ phase = "backward"
    /\ resp' = GetMessages(msgs, cursor, "before", parsedLimit)
    /\ collected' = collected \o resp'.messages
    /\ IF resp'.next_cursor = NullCursor
         THEN phase' = "backward_done" /\ cursor' = cursor
         ELSE phase' = "backward" /\ cursor' = resp'.next_cursor
    /\ reqDirection' = "before"
    /\ UNCHANGED << svars, dvars, evars, msgs, rawLimit, parsedLimit, prevPage, anchor, codecIn,
                    codecOut >>

\* message.ts:21: a client that keeps asking for what is newer than the
\* newest message it holds; it starts holding nothing
BeginPoll ==
    /\ phase = "idle"
    /\ phase' = "poll"
    /\ cursor' = StartCursor
    /\ UNCHANGED << svars, dvars, evars, msgs, rawLimit, parsedLimit, reqDirection, prevPage, resp,
                    collected, anchor, codecIn, codecOut >>

\* GET messages?direction=after&cursor=<cursor of the newest message held>
PollAfter ==
    /\ phase = "poll"
    /\ resp' = GetMessages(msgs, cursor, "after", parsedLimit)
    /\ collected' = collected \o resp'.messages
    /\ cursor' = IF collected' = <<>> THEN cursor
                 ELSE EncodeCursor(collected'[Len(collected')].created_at,
                                   collected'[Len(collected')].id)
    /\ reqDirection' = "after"
    /\ UNCHANGED << svars, dvars, evars, msgs, rawLimit, parsedLimit, phase, prevPage, anchor,
                    codecIn, codecOut >>

\* types/index.ts:33, 37: another request inserts a message while the client
\* polls; created_at is NOW(), not before any existing one, and id is
\* gen_random_uuid(), any unused id
InsertMessage ==
    /\ phase = "poll"
    /\ \E t \in Timestamps, id \in Ids :
          /\ \A m \in msgs : m.id # id /\ ~StrLess(t, m.created_at)
          /\ msgs' = msgs \cup { Msg(t, id) }
    /\ UNCHANGED << svars, dvars, evars, rawLimit, parsedLimit, phase, cursor, reqDirection,
                    prevPage, resp, collected, anchor, codecIn, codecOut >>

PNext ==
    \/ BeginBackward
    \/ FetchOlder
    \/ BeginPoll
    \/ PollAfter
    \/ InsertMessage
    \/ BeginForward
    \/ FetchAfter
    \/ FetchBefore
    \/ FetchAfterPrev
    \/ CodecRoundTrip
    \/ FetchWithCursor
    \/ FetchInitial
    \/ FollowNext

SpecPage == PInit /\ [][PNext]_vars

\* ================================================= the messages table
\* Two conversations, each owned by one identity, and an id that names no
\* conversation. The caller of a request is the identity the identity gate
\* would attach to it; the handlers as they are never look at it.
Owner == [c \in { "c1", "c2" } |-> IF c = "c1" THEN "u1" ELSE "u2"]
ConvIds == DOMAIN Owner
ConvParams == ConvIds \cup { "c0" }
Callers == { "u1", "u2" }

\* types/index.ts:35  CHECK (role IN ('user', 'assistant', 'system'))
Roles == { "user", "assistant", "system" }
\* req.body.role: absent (""), a role of the schema, or another text
RoleParams == { "", "user", "admin" }

\* req.body.content: a value of some type; a string has a length and a number
\* of leading and trailing white-space characters (pad)
Content(t, n, w) == [type |-> t, len |-> n, pad |-> w]
ContentParams ==
    { Content("undefined", 0, 0),
      Content("string", 1, 1),
      Content("string", MaxContentLength, 0),
      Content("string", MaxContentLength + 1, 1) }
\* content.trim().length
TrimLen(c) == c.len - c.pad

\* lengths of the text a generation returns
ResponseLens == { 1, MaxContentLength + 1 }

\* conversations.message_count is an INTEGER column: NULL or a number
Count(n) == [null |-> FALSE, n |-> n]
Coalesce(v, d) == IF v.null THEN d ELSE v.n
Greatest(a, b) == IF a > b THEN a ELSE b

\* IncrementCount forgetting the stored value
IncrementCountOverwrites(mc, c) ==
    [mc EXCEPT ![c] = Count(1)]

\* part_003:7-13  increment_conversation_message_count, AFTER INSERT FOR EACH ROW
IncrementCount(mc, c) ==
    [mc EXCEPT ![c] = Count(Coalesce(@, 0) + 1)]

\* part_003:15-21  decrement_conversation_message_count, AFTER DELETE FOR EACH ROW
DecrementCount(mc, c) ==
    [mc EXCEPT ![c] = Count(Greatest(Coalesce(@, 0) - 1, 0))]

RowsOf(c) == { r \in table : r.conv = c }
MsgRow(id, c, r, n) == [id |-> id, conv |-> c, role |-> r, len |-> n]
Reply(op, who, c, st, rd, wr) ==
    [op |-> op, caller |-> who, conv |-> c, status |-> st, read |-> rd, wrote |-> wr]

\* the insert statement with its row trigger; the CHECK constraint refuses
\* a role outside the schema's, and then nothing is written
InsertRow(c, r, n) ==
    /\ r \in Roles
    /\ nextId <= MaxRows
    /\ table' = table \cup { MsgRow(nextId, c, r, n) }
    /\ nextId' = nextId + 1
    /\ message_count' = IncrementCount(message_count, c)

\* the conversations and their counters as the column default leaves them
DInit ==
    /\ SessionOff
    /\ PagerOff
    /\ table = {}
    /\ message_count = [c \in ConvIds |-> Count(0)]
    /\ nextId = 1
    /\ streaming = "none"
    /\ reply = [op |-> "none"]

\* message.ts:162-182: the validation of createMessage
CreateInvalid(r, c) ==
    \/ r = "" \/ Falsy(c)
    \/ r \notin Roles
    \/ c.type # "string" \/ TrimLen(c) = 0
    \/ c.len > MaxContentLength

\* message.ts:151-217
CreateMessage ==
    \E who \in Callers, c \in ConvParams, r \in RoleParams, body \in ContentParams :
      /\ IF CreateInvalid(r, body)
           THEN /\ reply' = Reply("create", who, c, 400, {}, FALSE)
                /\ UNCHANGED << table, message_count, nextId >>
           ELSE IF c \notin ConvIds
             THEN /\ reply' = Reply("create", who, c, 404, {}, FALSE)
                  /\ UNCHANGED << table, message_count, nextId >>
             ELSE \/ /\ InsertRow(c, r, TrimLen(body))
                     /\ reply' = Reply("create", who, c, 201, {}, TRUE)
                  \/ /\ reply' = Reply("create", who, c, 500, {}, FALSE)
                     /\ UNCHANGED << table, message_count, nextId >>
      /\ UNCHANGED << svars, pvars, evars, streaming >>

\* message.ts:222-260
DeleteMessage ==
    \E who \in Callers, c \in ConvParams, messageId \in 1..MaxRows :
      /\ IF c \notin ConvIds
           THEN /\ reply' = Reply("delete", who, c, 404, {}, FALSE)
                /\ UNCHANGED << table, message_count >>
           ELSE \/ LET gone == { r \in table : r.id = messageId /\ r.conv = c }
                   IN  /\ table' = table \ gone
                       /\ message_count' = IF gone = {} THEN message_count
                                           ELSE DecrementCount(message_count, c)
                       /\ reply' = Reply("delete", who, c, 200, {}, gone # {})
                \/ /\ reply' = Reply("delete", who, c, 404, {}, FALSE)
                   /\ UNCHANGED << table, message_count >>
      /\ UNCHANGED << svars, pvars, evars, nextId, streaming >>

\* message.ts:53-62, 78-81, 112-141: getMessages seen from the table; a first
\* page with the default limit holds every row of the conversation
ReadMessages ==
    \E who \in Callers, c \in ConvParams :
      /\ IF c \notin ConvIds
           THEN reply' = Reply("read", who, c, 404, {}, FALSE)
           ELSE \/ reply' = Reply("read", who, c, 200, RowsOf(c), FALSE)
                \/ reply' = Reply("read", who, c, 500, {}, FALSE)
      /\ UNCHANGED << svars, pvars, evars, table, message_count, nextId, streaming >>

\* message.ts:295-369: streamMessage up to its user insert
StreamUserInsert ==
    \E who \in Callers, c \in ConvParams, r \in RoleParams, body \in ContentParams :
      /\ streaming = "none"
      /\ IF InvalidContent(body)
           THEN /\ reply' = Reply("stream", who, c, 400, {}, FALSE)
                /\ UNCHANGED << table, message_count, nextId, streaming >>
           ELSE IF c \notin ConvIds
             THEN /\ reply' = Reply("stream", who, c, 404, {}, FALSE)
                  /\ UNCHANGED << table, message_count, nextId, streaming >>
             ELSE \/ /\ InsertRow(c, IF r = "" THEN "user" ELSE r, body.len)
                     /\ streaming' = c
                     /\ reply' = Reply("stream", who, c, 200, {}, TRUE)
                  \/ /\ reply' = Reply("stream", who, c, 200, {}, FALSE)
                     /\ UNCHANGED << table, message_count, nextId, streaming >>
      /\ UNCHANGED << svars, pvars, evars >>

\* message.ts:379-433: the generation, then the assistant insert of that
\* session, unless the generation failed or was cancelled or the insert fails
StreamAssistantInsert ==
    /\ streaming # "none"
    /\ \/ \E n \in ResponseLens :
            /\ InsertRow(streaming, "assistant", n)
            /\ reply' = Reply("stream_assistant", reply.caller, streaming, 200, {}, TRUE)
       \/ /\ reply' = Reply("stream_assistant", reply.caller, streaming, 200, {}, FALSE)
          /\ UNCHANGED << table, message_count, nextId >>
    /\ streaming' = "none"
    /\ UNCHANGED << svars, pvars, evars >>

DNext ==
    \/ CreateMessage
    \/ DeleteMessage
    \/ ReadMessages
    \/ StreamUserInsert
    \/ StreamAssistantInsert

SpecStore == DInit /\ [][DNext]_vars

\* ============================================================== claims
RECURSIVE Concat(_)
Concat(texts) == IF texts = <<>> THEN <<>> ELSE Head(texts) \o Concat(Tail(texts))

IsType(t, e) == e.type = t
OfType(evs, t) == SelectSeq(evs, LAMBDA e : IsType(t, e))
TokenContents(evs) == [i \in 1..Len(OfType(evs, "token")) |-> OfType(evs, "token")[i].content]
IsPrefix(a, b) == Len(a) <= Len(b) /\ SubSeq(b, 1, Len(a)) = a
AssistantRows == { i \in DOMAIN store : store[i].turn = "assistant_turn" }
SessionOver == pc = "returned"
\* the adapter returned its text (to the abort test of message.ts:410)
AdapterReturned == asstIssued \/ (cancelObserved /\ err = NoError)
\* the transport accepted every write and never timed out
TransportWritable == ~destroyed /\ ~timedOut

\* C1: a session whose cancellation token is triggered before the assistant
\* insert is issued never inserts an assistant message.
C1_NoAssistantAfterEarlyCancel ==
    (aborted /\ earlyCancel) => AssistantRows = {}

C1_Witness ==
    /\ SessionOver /\ aborted /\ earlyCancel
    /\ Len(OfType(events, "token")) >= 2

\* C2: once a checkpoint has seen the aborted token, no step of the session
\* writes an event to the transport.
C2_SilentAfterCancel == [][cancelObserved => events' = events]_vars

C2_Witness ==
    /\ SessionOver /\ cancelObserved
    /\ Len(OfType(events, "token")) >= 1

\* C3: a provider failure on a writable transport ends with exactly one error
\* event and no assistant message.
C3_ExactlyOneErrorEvent ==
    (SessionOver /\ err \in ProviderErrors /\ TransportWritable) =>
        /\ Len(OfType(events, "error")) = 1
        /\ AssistantRows = {}

\* The user-facing text the claim assigns to each kind of underlying failure.
C4_TextForKind(e) ==
    IF e = NotConfiguredError THEN <<"AI service not configured">>
    ELSE IF e.code = "ECONNREFUSED" THEN <<"Cannot connect to AI service">>
    ELSE IF e.status = 429 THEN <<"AI service rate limit exceeded">>
    ELSE IF e.status >= 500 THEN <<"AI service temporarily unavailable">>
    ELSE <<"AI service unavailable">>

\* C4: the error text the orchestrator emits after an adapter failure is the
\* one that belongs to the kind of the failure raised inside the adapter.
C4_ErrorTextByKind ==
    (SessionOver /\ err # NoError /\ TransportWritable) =>
        events[Len(events)] = ErrorEvent(C4_TextForKind(err))

\* C5 as stated: at the end of a session the token events equal, one for one,
\* the increments the provider produced.
C5_TokensEqualProduced ==
    SessionOver => TokenContents(events) = produced

\* C5 amended: the token events are a prefix of the increments produced, at
\* most the last consumed increment is missing, and nothing is missing when
\* the adapter returned its text.
C5_TokensPrefixOfProduced ==
    /\ IsPrefix(TokenContents(events), produced)
    /\ Len(produced) <= Len(TokenContents(events)) + 1
    /\ AdapterReturned => TokenContents(events) = produced

C5_Witness ==
    /\ SessionOver
    /\ Len(TokenContents(events)) >= 2
    /\ Len(produced) > Len(TokenContents(events))

\* C6: a persisted assistant message holds the concatenation of all increments
\* produced, which is the concatenation of all token events emitted.
C6_AssistantContent ==
    \A i \in AssistantRows :
        /\ store[i].content = Concat(produced)
        /\ store[i].content = Concat(TokenContents(events))

C6_Witness ==
    /\ AssistantRows # {}
    /\ Len(produced) >= 2
    /\ produced[1] # <<>> /\ produced[2] # <<>> /\ produced[1] # produced[2]

\* C7: the request is answered 400 exactly when content is not a string, is
\* empty or is longer than 10,000; then nothing was written, the transport is
\* not an event stream and no event was emitted.
C7_RejectsInvalidInput ==
    pc # "start" =>
        /\ status = 400 <=>
              (content.type # "string" \/ content.len = 0 \/ content.len > 10000)
        /\ status = 400 => (store = <<>> /\ ~sse /\ events = <<>>)

C7_Witness ==
    /\ status = 400
    /\ content.type = "string" /\ content.len = 10001

HasUnderscore(str) == \E i \in 1..Len(str) : str[i] = "_"

\* C8: paging after from the start with a fixed limit, following next_cursor
\* until none is returned, yields exactly the conversation in ascending
\* (created_at, id) order: no duplicate, no gap.
C8_ForwardPagingComplete ==
    phase = "forward_done" => collected = SortAsc(msgs)

C8_Witness ==
    /\ phase = "forward_done"
    /\ Len(collected) = 3
    /\ collected[1].created_at = collected[2].created_at
    /\ EffectiveLimit(parsedLimit) = 1

\* C9: paging before from the cursor of A, then after from the prev_cursor
\* returned, gives a page whose first element is A.
C9_BackAndForthReturnsToAnchor ==
    phase = "back_forth_done" =>
        /\ resp.messages # <<>>
        /\ resp.messages[1] = anchor

C9_Witness ==
    /\ phase = "back_forth_done"
    /\ Cardinality({ m \in msgs : MsgLess(m, anchor) }) >= 2
    /\ EffectiveLimit(parsedLimit) >= 2

\* C10: decoding the cursor made from a pair free of '_' gives the pair back,
\* and a cursor returned for a message is accepted and positions the query
\* at that message's (created_at, id).
C10_CursorRoundTrip ==
    /\ (phase = "codec_done" /\ ~HasUnderscore(codecIn[1]) /\ ~HasUnderscore(codecIn[2]))
          => codecOut = [ok |-> TRUE, created_at |-> codecIn[1], id |-> codecIn[2]]
    /\ (phase \in { "forward", "forward_done", "before_done", "back_forth_done" }
          /\ resp.status = 200) =>
          \A c \in { resp.next_cursor, resp.prev_cursor } \ { NullCursor } :
             \A d \in { "after", "before" } :
                LET m == IF c = resp.next_cursor
                           THEN resp.messages[Len(resp.messages)]
                           ELSE resp.messages[1]
                    r == GetMessages(msgs, c, d, parsedLimit)
                IN  /\ r.status = 200
                    /\ r.cursored
                    /\ r.at = << m.created_at, m.id >>

C10_Witness ==
    /\ phase = "forward"
    /\ resp.status = 200
    /\ resp.next_cursor # NullCursor
    /\ Len(resp.messages) = 2

\* ---------------------------------------------------------------------
\* the shape the claims call a well-formed cursor: two non-empty components
\* joined by one '_'
WellFormedCursor(c) ==
    \E k \in 2..(Len(c) - 1) :
        /\ c[k] = "_"
        /\ \A j \in 1..Len(c) : c[j] = "_" => j = k
CursorTimestamp(c) == SubSeq(c, 1, (CHOOSE k \in 1..Len(c) : c[k] = "_") - 1)
CursorId(c) == SubSeq(c, (CHOOSE k \in 1..Len(c) : c[k] = "_") + 1, Len(c))
CursorOfMsg(m) == m.created_at \o << "_" >> \o m.id
\* (created_at, id) of a strictly below (created_at, id) of b
Below(a, b) ==
    \/ StrLess(a.created_at, b.created_at)
    \/ (a.created_at = b.created_at /\ StrLess(a.id, b.id))
Elems(q) == { q[k] : k \in 1..Len(q) }
Min(a, b) == IF a < b THEN a ELSE b
\* page holds the n first elements of the set S in the order given by Before_
FirstOf(page, S, n, Before_(_, _)) ==
    /\ Len(page) = Min(n, Cardinality(S))
    /\ Elems(page) \subseteq S
    /\ \A k \in 1..(Len(page) - 1) : Before_(page[k], page[k + 1])
    /\ \A m \in S \ Elems(page) : \A k \in 1..Len(page) : Before_(page[k], m)
Above(a, b) == Below(b, a)
Answered == phase \in { "initial_done", "forward_done", "before_done",
                        "back_forth_done", "cursor_done", "next_done" }

\* C11: a supplied cursor that is not two non-empty components joined by one
\* '_' is answered with the malformed-cursor client error and no page.
C11_MalformedCursorRejected ==
    (phase = "cursor_done" /\ ~WellFormedCursor(cursor)) =>
        (resp.status = 400 /\ resp.messages = <<>>)

\* The effective limit the claim gives for each supplied value of limit.
C12_Expected(raw) ==
    CASE raw = <<>> -> 50
      [] raw = << "a", "b", "c" >> -> 50
      [] raw = << "0" >> -> 50
      [] raw = << "-", "5" >> -> 50
      [] raw = << "1" >> -> 1
      [] raw = << "2" >> -> 2
      [] raw = << "1", "0", "0" >> -> 100
      [] raw = << "1", "0", "1" >> -> 100
      [] raw = << "5", "0", "0" >> -> 100

C16_CursorPage ==
    (phase \in { "before_done", "back_forth_done", "cursor_done", "next_done" }
     /\ resp.status = 200 /\ WellFormedCursor(cursor)) =>
        LET at_ == Msg(CursorTimestamp(cursor), CursorId(cursor))
        IN  /\ at_ \notin Elems(resp.messages)
            /\ IF reqDirection = "after"
                 THEN FirstOf(resp.messages, { m \in msgs : Below(at_, m) },
                              resp.limit, Below)
                 ELSE FirstOf(resp.messages, { m \in msgs : Below(m, at_) },
                              resp.limit, Above)

C16_Witness ==
    /\ phase = "before_done"
    /\ Len(resp.messages) = 2
    /\ resp.messages[1].created_at = anchor.created_at
    /\ Cardinality({ m \in msgs : Below(m, anchor) }) = 2

\* C17: without a cursor the page is the min(limit, n) most recent messages,
\* newest first, whatever the direction.
C17_InitialPage ==
    phase = "initial_done" =>
        /\ resp.status = 200
        /\ FirstOf(resp.messages, msgs, resp.limit, Above)

C17_Witness ==
    /\ phase = "initial_done"
    /\ reqDirection = "before"
    /\ Len(resp.messages) = 2
    /\ Cardinality(msgs) = 3

\* C18: has_more iff the page is full; next_cursor iff has_more, encoding the
\* last message; prev_cursor only for a request with a cursor and a non-empty
\* page, encoding the first message.
C18_ResponseCursors ==
    (Answered /\ resp.status = 200) =>
        /\ resp.has_more <=> (Len(resp.messages) = resp.limit)
        /\ (resp.next_cursor # NullCursor) <=> resp.has_more
        /\ resp.next_cursor # NullCursor =>
              resp.next_cursor = CursorOfMsg(resp.messages[Len(resp.messages)])
        /\ resp.prev_cursor # NullCursor =>
              /\ phase # "initial_done"
              /\ resp.messages # <<>>
              /\ resp.prev_cursor = CursorOfMsg(resp.messages[1])

C18_Witness ==
    /\ phase = "cursor_done"
    /\ resp.status = 200
    /\ resp.has_more
    /\ Len(resp.messages) = 2
    /\ resp.prev_cursor # NullCursor

\* C19: the page fetched with a page's next_cursor and direction after holds
\* no message of the page that returned the cursor.
C19_NextCursorContinues ==
    phase = "next_done" =>
        \A k \in 1..Len(resp.messages) : resp.messages[k] \notin Elems(prevPage)

\* ---------------------------------------------------------------------
UserRows == { i \in DOMAIN store : store[i].turn = "user_turn" }
UserInsertFailed == ctx = "user_err" \/ thrown = "user_insert"
DoneAt(evs) == { k \in 1..Len(evs) : evs[k].type = "done" }
TokenAt(evs) == { k \in 1..Len(evs) : evs[k].type = "token" }

\* C13 as stated: the adapter is invoked only after the user row is written;
\* a failed user insert leaves an error event, an ended stream, no adapter
\* call and no assistant message.
C13_GenerationAfterUserInsert ==
    /\ streamingStarted => UserRows # {}
    /\ UserInsertFailed => (~streamingStarted /\ AssistantRows = {} /\ produced = <<>>)
    /\ (UserInsertFailed /\ SessionOver) =>
          (ended /\ events = << ErrorEvent(<<"Failed to save user message">>) >>)

\* C14: a session that opened the event stream eventually ends the transport,
\* and it has ended it when the handler has returned.
C14_StreamEventuallyEnded ==
    /\ [](sse => <>ended)
    /\ []((sse /\ SessionOver) => ended)

C14_Witness ==
    /\ sse /\ SessionOver /\ ended
    /\ timedOut
    /\ Len(OfType(events, "token")) >= 1

\* C15: a missing conversation is answered 404 with no row written, no event
\* stream, no close listener, no event and no adapter call.
C15_NotFoundBeforeUpgrade ==
    status = 404 =>
        /\ SessionOver
        /\ store = <<>> /\ events = <<>>
        /\ ~sse /\ ~aborted /\ ~ended
        /\ ~streamingStarted /\ produced = <<>>

C15_Witness ==
    /\ status = 404
    /\ destroyed

\* C20: at most two done events; the first carries the id of the stored user
\* row and precedes every token; the second carries the id of the stored
\* assistant row, follows every token and is the last event; every done
\* carries the id of a row in the store.
C20_DoneEvents ==
    LET d == DoneAt(events)
    IN  /\ Cardinality(d) <= 2
        /\ \A k \in d : \E i \in DOMAIN store : store[i].id = events[k].messageId
        /\ \A k \in d :
              IF \A j \in d : k <= j
                THEN /\ \E i \in UserRows : store[i].id = events[k].messageId
                     /\ \A t \in TokenAt(events) : k < t
                ELSE /\ \E i \in AssistantRows : store[i].id = events[k].messageId
                     /\ \A t \in TokenAt(events) : t < k
                     /\ k = Len(events)

\* ---------------------------------------------------------------------
ErrorAt(evs) == { k \in 1..Len(evs) : evs[k].type = "error" }
AssistantInsertFailed == ctx = "asst_err" \/ thrown = "asst_insert"
\* a failure of the session after the upgrade: a store call returned or threw
\* an error, the adapter failed, or an emit rejected
SessionFailed ==
    \/ thrown \in { "user_insert", "asst_insert" }
    \/ ctx \in { "user_err", "asst_err", "orch_error" }
    \/ emitErr # NoError

\* C21: an error event is the last event of its session.
C21_ErrorEventTerminal ==
    \A k \in ErrorAt(events) : k = Len(events)

\* C22: a session that opened the event stream, failed and whose client never
\* disconnected has an error event on the transport when the stream has ended.
C22_FailureSurfaced ==
    (SessionOver /\ sse /\ ~destroyed /\ SessionFailed) =>
        (ended /\ ErrorAt(events) # {})

\* C23: when the conversation lookup throws, before the upgrade, the handler
\* answers with status 500.
C23_Generic500 ==
    (SessionOver /\ thrown = "lookup") => (~sse /\ status = 500)

\* C24: when the assistant insert fails after a successful generation, a client
\* that stays connected gets exactly one error event, "Failed to save AI
\* response", and no final done; the stream is ended, every token produced has
\* been delivered, and the user row is the only row of the session.
C24_AssistantInsertFailure ==
    (SessionOver /\ AssistantInsertFailed /\ ~destroyed) =>
        /\ OfType(events, "error") = << ErrorEvent(<<"Failed to save AI response">>) >>
        /\ Cardinality(DoneAt(events)) = 1
        /\ ended
        /\ TokenContents(events) = produced
        /\ UserRows # {} /\ AssistantRows = {}

\* C28: the row written before generation has role user and the request's
\* content, whatever the request body.
C28_UserTurnPersisted ==
    \A i \in UserRows : store[i].role = "user" /\ store[i].content = content

\* C29: no step writes an event to a transport that has ended or is destroyed,
\* and an emit attempted on such a transport rejects with StreamClosed.
C29_NoWriteOnClosedTransport ==
    [][ /\ events' # events => (~ended /\ ~destroyed)
        /\ (pc = "emit" /\ (ended \/ destroyed)) =>
              (pc' = "rejected" /\ emitErr' = StreamClosedError /\ events' = events)
      ]_vars

C29_Witness ==
    /\ SessionOver /\ streamingStarted /\ destroyed
    /\ emitErr = StreamClosedError
    /\ ctx = "orch_error"
    /\ ErrorAt(events) = {}

\* C30: no step writes an event while an earlier one is buffered awaiting drain.
C30_SequentialEmission ==
    [][ events' # events => ~needDrain ]_vars

\* ---------------------------------------------------------------------
\* C25: a request on a conversation that is not the caller's is answered
\* not-found, reads no message and writes none.
C25_ForeignConversationNotFound ==
    (reply.op # "none" /\ reply.conv \in ConvIds /\ Owner[reply.conv] # reply.caller) =>
        (reply.status = 404 /\ reply.read = {} /\ ~reply.wrote)

C27_RowsWithinLimits ==
    \A r \in table : r.len <= MaxContentLength /\ r.role \in Roles

\* ---------------------------------------------------------------------
\* the provider has been contacted (generateContentStream was called)
ProviderContacted == pc \in { "provider_open", "provider_next" } \/ produced # <<>>

\* C32: the adapter passes its pre-request checks only with credentials
\* configured and the token not triggered; otherwise it fails at once, and a
\* session that failed there has contacted no provider and written no token.
C32_ProviderContactGuarded ==
    [][ /\ pc = "adapter_start" =>
              /\ pc' = "provider_open" => (hasKey /\ ~aborted)
              /\ (~hasKey \/ aborted) => pc' = "adapter_catch"
              /\ ~hasKey => err' = NotConfiguredError
              /\ (hasKey /\ aborted) => err' = AbortedBeforeError
        /\ ProviderContacted' => hasKey
        /\ err' \in { NotConfiguredError, AbortedBeforeError } =>
              (~ProviderContacted' /\ TokenAt(events') = {})
      ]_vars

C32_Witness ==
    /\ pc = "orch_catch"
    /\ hasKey /\ aborted
    /\ err = AbortedBeforeError
    /\ produced = <<>>

\* C36: a session inserts at most one user row and at most one assistant row,
\* the user row first, and no assistant row when the user insert failed.
C36_AtMostOneRowEach ==
    /\ Cardinality(UserRows) <= 1
    /\ Cardinality(AssistantRows) <= 1
    /\ \A i \in AssistantRows : \E j \in UserRows : j < i
    /\ UserInsertFailed => store = <<>>

C36_Witness ==
    /\ SessionOver
    /\ Len(store) = 2
    /\ timedOut

\* ---------------------------------------------------------------------
\* the adapter returned its text although the token had been triggered
ReturnedCancelled == AdapterReturned /\ earlyCancel
EmitFailures == { StreamClosedError, WriteTimeoutError }

\* C33 as stated: the adapter never returns its text once the token has been
\* triggered, and after the token is triggered nothing is appended to the
\* accumulator and no token event is written.
C33_TextOnlyIfUncancelled ==
    [][ /\ ~ReturnedCancelled'
        /\ aborted => /\ completeResponse' = completeResponse
                      /\ TokenAt(events') = TokenAt(events)
      ]_vars

\* C33 amended: the adapter fails when an increment arrives after the token
\* was triggered; when the token is triggered after the last increment was
\* processed the adapter returns the whole text, and the session then stores
\* no assistant row and ends the stream; after the token is triggered nothing
\* is appended to the accumulator and no token event is written.
C33_TextUnlessCancelObserved ==
    [][ /\ (pc = "provider_next" /\ aborted /\ produced' # produced) =>
              (pc' = "adapter_catch" /\ err' = AbortedDuringError)
        /\ ReturnedCancelled' =>
              /\ completeResponse' = Concat(produced')
              /\ err' = NoError
              /\ AssistantRows' = {} /\ ended' /\ SessionOver'
        /\ aborted => /\ completeResponse' = completeResponse
                      /\ TokenAt(events') = TokenAt(events)
      ]_vars

C33_Witness ==
    /\ ReturnedCancelled
    /\ Len(produced) >= 2
    /\ Len(OfType(events, "token")) = Len(produced)

\* C37: a token emit that fails ends the loop: the adapter goes to its catch
\* with that failure, consumes no further increment, and the session stores
\* no assistant row; a stored assistant row has every increment on the
\* transport as a token event, none of them timed out.
C37_NoAssistantAfterFailedToken ==
    [][ /\ (pc = "rejected" /\ ctx = "token") =>
              (pc' = "adapter_catch" /\ err' = emitErr /\ emitErr \in EmitFailures)
        /\ err \in EmitFailures => (produced' = produced /\ AssistantRows' = {})
        /\ AssistantRows' # {} =>
              /\ TokenContents(events') = produced'
              /\ err' = NoError
              /\ timedOut' => ctx' = "final_done"
      ]_vars

C37_Witness ==
    /\ SessionOver
    /\ err = WriteTimeoutError
    /\ Len(produced) = 2
    /\ Len(OfType(events, "token")) = 2
    /\ AssistantRows = {}

\* ------------------------------------------------- the emitter as a unit
\* message.ts:334-353. Each call of sendEvent makes one promise; resolve and
\* reject are closures over that promise, and a promise that has settled
\* ignores them.
Unsettled(buffered) ==
    [state |-> "pending", reason |-> "none", buffered |-> buffered]

\* resolve / reject that replace the outcome of a settled promise
SettleOverwrites(p, state, reason) == [p EXCEPT !.state = state, !.reason = reason]

\* message.ts:335  resolve() / reject(e) of new Promise(...)
Settle(p, state, reason) ==
    IF p.state = "pending" THEN [p EXCEPT !.state = state, !.reason = reason] ELSE p

\* the write of the call-th sendEvent
EmitWrite(call) == [type |-> "emit", call |-> call]

EInit ==
    /\ content = [type |-> "string", len |-> 1]
    /\ role = "user"
    /\ hasKey = TRUE
    /\ SessionInit("emitter")
    /\ PagerOff
    /\ StoreOff

\* message.ts:334-352: the caller awaits every sendEvent, so a call is made
\* only when the previous one has settled
EmitCall ==
    /\ pc = "emitter"
    /\ Len(emits) < MaxEmits
    /\ \A k \in DOMAIN emits : emits[k].state # "pending"
    /\ LET call == Len(emits) + 1
       IN  IF ended \/ destroyed
             THEN /\ emits' = Append(emits, Settle(Unsettled(FALSE), "rejected", "closed"))
                  /\ UNCHANGED << events, needDrain, timers, drainListeners >>
             ELSE /\ events' = Append(events, EmitWrite(call))
                  /\ \E success \in BOOLEAN :
                        /\ success => ~needDrain
                        /\ IF success
                             THEN /\ emits' = Append(emits, Settle(Unsettled(FALSE),
                                                                   "resolved", "flushed"))
                                  /\ UNCHANGED << needDrain, timers, drainListeners >>
                             ELSE /\ emits' = Append(emits, Unsettled(TRUE))
                                  /\ needDrain' = TRUE
                                  /\ drainListeners' = drainListeners \cup { call }
                                  /\ timers' = timers \cup { call }
    /\ UNCHANGED << pvars, dvars, pc, store, aborted, streamingStarted, inp, http, destroyed,
                    ended, ad, em, gh >>

\* the transport emits 'drain': every once("drain") listener runs and is
\* removed (message.ts:348)
DrainEvent ==
    /\ pc = "emitter"
    /\ needDrain
    /\ ~destroyed
    /\ needDrain' = FALSE
    /\ emits' = [k \in DOMAIN emits |->
                    IF k \in drainListeners THEN Settle(emits[k], "resolved", "drained")
                    ELSE emits[k]]
    /\ drainListeners' = {}
    /\ UNCHANGED << pvars, dvars, pc, store, aborted, streamingStarted, inp, http, events,
                    destroyed, ended, ad, em, gh, timers >>

\* message.ts:350: the timers have one delay, so the oldest armed one fires
TimerFires ==
    /\ pc = "emitter"
    /\ timers # {}
    /\ LET call == CHOOSE k \in timers : \A j \in timers : k <= j
       IN  /\ emits' = [emits EXCEPT ![call] = Settle(@, "rejected", "timeout")]
           /\ timers' = timers \ { call }
    /\ UNCHANGED << pvars, dvars, pc, store, aborted, streamingStarted, inp, http, tr, ad, em,
                    gh, drainListeners >>

\* the client goes away: the transport is destroyed and drains no more
TransportCloses ==
    /\ pc = "emitter"
    /\ ~destroyed
    /\ destroyed' = TRUE
    /\ UNCHANGED << pvars, dvars, evars, pc, store, aborted, streamingStarted, inp, http,
                    events, ended, needDrain, ad, em, gh >>

\* message.ts:437, 458  res.end(), reached by the caller between two calls
EndStream ==
    /\ pc = "emitter"
    /\ ~ended
    /\ \A k \in DOMAIN emits : emits[k].state # "pending"
    /\ ended' = TRUE
    /\ UNCHANGED << pvars, dvars, evars, pc, store, aborted, streamingStarted, inp, http,
                    events, destroyed, needDrain, ad, em, gh >>

ENext ==
    \/ EmitCall
    \/ DrainEvent
    \/ TimerFires
    \/ TransportCloses
    \/ EndStream

SpecEmit == EInit /\ [][ENext]_vars

\* an armed timer fires
LiveEmit == SpecEmit /\ WF_vars(TimerFires)

\* ---------------------------------------------------------------------
NoDuplicate(q) == \A i, j \in 1..Len(q) : i # j => q[i] # q[j]

\* C34: the initial page followed by the pages before each next_cursor, up to
\* the first page without one, hold every message of the conversation exactly
\* once, newest first.
C34_BackwardPagingComplete ==
    phase = "backward_done" =>
        /\ resp.status = 200
        /\ Elems(collected) = msgs
        /\ Len(collected) = Cardinality(msgs)
        /\ \A k \in 1..(Len(collected) - 1) : Above(collected[k], collected[k + 1])

C34_Witness ==
    /\ phase = "backward_done"
    /\ Len(collected) = 3
    /\ collected[2].created_at = collected[3].created_at
    /\ EffectiveLimit(parsedLimit) = 1

\* C35: a polling client never holds a message twice, and every message of
\* the conversation that is not above the newest message it holds (so that no
\* later poll can return it) is one it holds.
C35_PollingMissesNothing ==
    phase = "poll" =>
        /\ NoDuplicate(collected)
        /\ collected # <<>> =>
              \A m \in msgs :
                  ~Below(collected[Len(collected)], m) => m \in Elems(collected)

\* ---------------------------------------------------------------------
WritesOf(call) == Cardinality({ k \in DOMAIN events : events[k] = EmitWrite(call) })

\* what sendEvent call number `call` has come to, given how it began
EmitOutcomeSound(call) ==
    LET p == emits[call]
    IN  /\ WritesOf(call) <= 1
        /\ ~p.buffered => p.state # "pending"
        /\ p.reason = "flushed" <=> (p.state = "resolved" /\ ~p.buffered)
        /\ p.reason = "closed" <=> (p.state = "rejected" /\ ~p.buffered)
        /\ p.reason = "closed" <=> WritesOf(call) = 0
        /\ p.reason = "drained" <=> (p.state = "resolved" /\ p.buffered)
        /\ p.reason = "timeout" <=> (p.state = "rejected" /\ p.buffered)
        /\ p.state = "pending" => call \in timers

\* a step changes a call only by settling it, through its own listener on a
\* drain or through its own timer
EmitSettledByOwn(call) ==
    emits'[call] # emits[call] =>
        /\ emits[call].state = "pending"
        /\ emits'[call].state # "pending"
        /\ \/ emits'[call].reason = "drained" /\ call \in drainListeners
                 /\ needDrain /\ ~needDrain'
           \/ emits'[call].reason = "timeout" /\ call \in timers /\ call \notin timers'

\* C31: every emit call settles exactly once: at once when the write is
\* flushed (or the transport is closed); a buffered call writes nothing more
\* and succeeds on the drain signal or fails with the write timeout,
\* whichever comes first; no call stays pending forever; and what an earlier
\* call left behind never changes the outcome of another call.
C31_EmitSettlesOnce ==
    /\ [](\A call \in DOMAIN emits : EmitOutcomeSound(call))
    /\ [][\A call \in DOMAIN emits : EmitSettledByOwn(call)]_vars
    /\ \A call \in 1..MaxEmits :
          (call \in DOMAIN emits /\ emits[call].state = "pending")
              ~> (call \in DOMAIN emits /\ emits[call].state # "pending")

\* the first call was resolved by a drain and its timer has since fired; the
\* second timed out and its drain listener is still registered
C31_Witness ==
    /\ Len(emits) >= 2
    /\ emits[1].reason = "drained" /\ 1 \notin timers
    /\ emits[2].reason = "timeout" /\ 2 \in drainListeners

====
